---- MODULE Spec2Model ----
(***************************************************************************)
(* Model of text-from-video.py: the folder-driven batch pipeline           *)
(* videos/ -> audio/ -> results/.                                          *)
(*                                                                         *)
(* A file name is a sequence of tokens; the token "." is the dot, every    *)
(* other token stands for one or more characters that are not dots.  A     *)
(* path is a sequence of names, beginning with the name of its root.  The  *)
(* file system is a function from the existing paths to their entries.     *)
(***************************************************************************)
EXTENDS Naturals, Sequences, FiniteSets, TLC

VARIABLES
    fs,        \* the file system: existing path -> entry
    argv,      \* sys.argv
    pc,        \* where main is: start, load, dispatch, videos, audio, done, crashed
    todo,      \* what the running rglob loop has still to yield
    log,       \* what this run printed and called, in order
    oracle,    \* what each external call answered, by input
    reported,  \* the final report of this run
    rerun,     \* this is the second run
    prev       \* the disk when this run began, and how the run before it ended

vars == <<fs, argv, pc, todo, log, oracle, reported, rerun, prev>>

(***************************************************************************)
(* Bounds of the model.                                                    *)
(***************************************************************************)
\* most entries the operator put under videos/, audio/ and results/ before the
\* first run
MaxEntries == 2

(***************************************************************************)
(* Names and paths (pathlib).                                              *)
(***************************************************************************)
Dot == "."

videos_folder == << <<"videos">> >>
audio_folder == << <<"audio">> >>
results_folder == << <<"results">> >>

Mp4 == <<Dot, "mp4">>
Wav == <<Dot, "wav">>
Txt == <<Dot, "txt">>

Last(s) == s[Len(s)]

IsPrefix(p, q) == Len(p) <= Len(q) /\ SubSeq(q, 1, Len(p)) = p

IsProperPrefix(p, q) == Len(p) < Len(q) /\ SubSeq(q, 1, Len(p)) = p

\* str.rfind('.') on a name, 1-based; 0 when the name holds no dot
RFindDot(name) ==
    LET at == {i \in 1..Len(name) : name[i] = Dot}
    IN  IF at = {} THEN 0 ELSE CHOOSE i \in at : \A j \in at : j <= i

\* PurePath.suffix: the last dot and what follows it, unless that dot is the
\* first or the last character of the name
Suffix(name) ==
    LET i == RFindDot(name)
    IN  IF 1 < i /\ i < Len(name) THEN SubSeq(name, i, Len(name)) ELSE <<>>

\* PurePath.with_suffix on the last name of a path
WithSuffixName(name, ext) ==
    IF Suffix(name) = <<>>
    THEN name \o ext
    ELSE SubSeq(name, 1, Len(name) - Len(Suffix(name))) \o ext

with_suffix(path, ext) ==
    SubSeq(path, 1, Len(path) - 1) \o <<WithSuffixName(Last(path), ext)>>

\* PurePath.relative_to(root)
relative_to(path, root) == SubSeq(path, Len(root) + 1, Len(path))

\* root / relative
Join(root, rel) == root \o rel

Parent(path) == SubSeq(path, 1, Len(path) - 1)

\* fnmatch of a name against the pattern "*" + ext (case-sensitive, dot files
\* included, as pathlib's glob does on POSIX)
Matches(name, ext) ==
    /\ Len(name) >= Len(ext)
    /\ SubSeq(name, Len(name) - Len(ext) + 1, Len(name)) = ext

(***************************************************************************)
(* The file system.                                                        *)
(***************************************************************************)
NoPath == <<>>
NoText == <<>>

DirEntry == [kind |-> "dir", tag |-> "dir", src |-> NoPath, text |-> NoText]

FileEntry(tag, src, text) == [kind |-> "file", tag |-> tag, src |-> src, text |-> text]

Exists(f, p) == p \in DOMAIN f

IsDir(f, p) == p \in DOMAIN f /\ f[p].kind = "dir"

IsFile(f, p) == p \in DOMAIN f /\ f[p].kind = "file"

Prefixes(p) == {SubSeq(p, 1, k) : k \in 1..Len(p)}

\* mkdir without exist_ok: raises as soon as the path exists
MkdirFailsNoExistOk(f, p) == Exists(f, p) \/ \E q \in Prefixes(p) : IsFile(f, q)

\* Path.mkdir(parents=True, exist_ok=True) raises exactly when the path or one
\* of its ancestors exists and is not a directory
MkdirFails(f, p) == \E q \in Prefixes(p) : IsFile(f, q)

\* the file system after a successful mkdir(parents=True, exist_ok=True)
Mkdir(f, p) ==
    [q \in DOMAIN f \cup Prefixes(p) |-> IF q \in DOMAIN f THEN f[q] ELSE DirEntry]

\* open(path, "w") / the decode tool creating its output: possible when the
\* parent is a directory and the path itself is not one
Writable(f, p) == IsDir(f, Parent(p)) /\ ~IsDir(f, p)

WriteFile(f, p, e) == [q \in DOMAIN f \cup {p} |-> IF q = p THEN e ELSE f[q]]

\* Path.rglob("*" + ext): every entry (file or directory) below root whose
\* name matches; nothing when root does not exist
Rglob(f, root, ext) ==
    {p \in DOMAIN f : IsProperPrefix(root, p) /\ Matches(Last(p), ext)}

\* rglob walks top-down: the matches of a directory come before those of its
\* subdirectories, and the matches below one directory are yielded together;
\* the order inside one directory is the listing order of the file system
Range(s) == {s[i] : i \in 1..Len(s)}

CommonPrefixLen(p, q) ==
    LET ks == {k \in 0..Len(p) : k <= Len(q) /\ SubSeq(p, 1, k) = SubSeq(q, 1, k)}
    IN  CHOOSE k \in ks : \A j \in ks : j <= k

WalkOrder(s) ==
    /\ \A i, j \in 1..Len(s) : i < j => ~IsProperPrefix(Parent(s[j]), Parent(s[i]))
    /\ \A i, j, k \in 1..Len(s) :
          i < j /\ j < k =>
             LET n == CommonPrefixLen(Parent(s[i]), Parent(s[k]))
             IN  IsPrefix(SubSeq(Parent(s[i]), 1, n), Parent(s[j]))

Enumerations(S) ==
    {s \in [1..Cardinality(S) -> S] : Range(s) = S /\ WalkOrder(s)}

(***************************************************************************)
(* What the operator may have put on disk before the first run.            *)
(***************************************************************************)
\* names of entries directly under videos/
VideoNames ==
    { <<"a">> \o Mp4, <<"b">> \o Mp4, Mp4, Mp4 \o Mp4,
      <<"a", Dot, "MP4">>, <<"a", "mp4">> }

\* names of directories under videos/
VideoDirs == { <<"sub">>, <<"a">> \o Wav, <<"a">> \o Txt, <<"b">> \o Mp4 }

\* names of the files inside those directories
NestedNames == { <<"b">> \o Mp4 }

VideoCandidates ==
    {[path |-> videos_folder \o <<n>>, kind |-> "file", tag |-> "video"] :
        n \in VideoNames}
    \cup {[path |-> videos_folder \o <<d, n>>, kind |-> "file", tag |-> "video"] :
        d \in VideoDirs, n \in NestedNames}
    \cup {[path |-> videos_folder \o <<d>>, kind |-> "dir", tag |-> "dir"] :
        d \in {<<"b">> \o Mp4}}

PreCandidates ==
    {[path |-> audio_folder \o <<n>>, kind |-> "file", tag |-> "old"] :
        n \in {<<"a">> \o Wav, Wav, Wav \o Wav, <<"sub">>}}
    \cup {[path |-> audio_folder \o << <<"a">> \o Wav >>, kind |-> "dir", tag |-> "dir"]}
    \cup {[path |-> results_folder \o <<n>>, kind |-> "file", tag |-> "old"] :
        n \in {<<"a">> \o Txt, <<"sub">>}}
    \cup {[path |-> results_folder \o << <<"a">> \o Txt >>, kind |-> "dir", tag |-> "dir"]}
    \cup {[path |-> r, kind |-> "file", tag |-> "old"] :
        r \in {audio_folder, results_folder}}

Candidates == VideoCandidates \cup PreCandidates

\* no path is given twice, and no file is the ancestor of another entry
Consistent(E) ==
    \A e1, e2 \in E :
        e1 # e2 =>
            /\ e1.path # e2.path
            /\ ~(e1.kind = "file" /\ IsProperPrefix(e1.path, e2.path))

OldText == <<"old">>

BuildFs(E) ==
    LET paths == UNION {Prefixes(e.path) : e \in E} \cup {videos_folder}
        given(p) == {e \in E : e.path = p}
    IN  [p \in paths |->
            IF given(p) = {} THEN DirEntry
            ELSE LET e == CHOOSE x \in given(p) : TRUE
                 IN  IF e.kind = "dir" THEN DirEntry
                     ELSE FileEntry(e.tag, p, IF e.tag = "old" THEN OldText ELSE NoText)]

\* sys.argv
Argvs ==
    { <<"prog">>, <<"prog", "processaudio">>, <<"prog", "extract">>,
      <<"prog", "extract", "processaudio">> }

Texts == { <<>>, <<"word">> }

Init ==
    /\ \E E \in SUBSET Candidates :
          /\ Cardinality(E) <= MaxEntries
          /\ Consistent(E)
          /\ fs = BuildFs(E)
    /\ argv \in Argvs
    /\ pc = "start"
    /\ todo = <<>>
    /\ log = <<>>
    /\ oracle = <<>>
    /\ reported = {}
    /\ rerun = FALSE
    /\ prev = [fs |-> fs, pc |-> "none", log |-> <<>>, reported |-> {}]

(***************************************************************************)
(* What the run prints and calls, in order.                                *)
(***************************************************************************)
\* op: what happened; path: the input file it is about; dst: the output path
\* computed for it; info: an exception class or a result; text: model text
Ev(op, path, dst, info, text) ==
    [op |-> op, path |-> path, dst |-> dst, info |-> info, text |-> text]

OpsOf(l, op) == LET T(e) == e.op = op IN SelectSeq(l, T)

PathsOf(l, op) == {e.path : e \in Range(OpsOf(l, op))}

(***************************************************************************)
(* The external tools and the model.  What a tool does with one input is   *)
(* chosen the first time it is asked and is the same when it is asked       *)
(* again about the same input (the rerun).                                  *)
(***************************************************************************)
Key(op, path, entry) == [op |-> op, path |-> path, entry |-> entry]

Out(res, text) == [res |-> res, text |-> text]

Outcomes(key, allowed) == IF key \in DOMAIN oracle THEN {oracle[key]} ELSE allowed

Remember(key, o) ==
    [k \in DOMAIN oracle \cup {key} |-> IF k = key THEN o ELSE oracle[k]]

\* ffprobe and ffmpeg on one input: the probe cannot be started, exits
\* non-zero, or prints nothing; the decode exits non-zero before or after it
\* opened its output; or both succeed.  A directory cannot be probed.
ExtractOutcomes(entry) ==
    IF entry.kind = "dir"
    THEN {Out("probe_fail", NoText)}
    ELSE {Out(r, NoText) :
            r \in {"probe_oserror", "probe_fail", "probe_empty",
                   "decode_fail", "decode_partial", "ok"}}

\* model.transcribe and the write of its text: the model raises, the open
\* raises, the write raises after the open, or all succeed.  A directory cannot
\* be read as audio.
TranscribeOutcomes(entry) ==
    IF entry.kind = "dir"
    THEN {Out("model_fail", NoText)}
    ELSE {Out("model_fail", NoText), Out("open_fail", <<"word">>),
          Out("write_fail", <<"word">>)}
         \cup {Out("ok", t) : t \in Texts}

\* the listing order of the file system does not change between the runs
Agrees(s, l, op) ==
    LET P == OpsOf(l, op)
    IN  \A i, j \in 1..Len(s) :
            i < j => \A a, b \in 1..Len(P) :
                        P[a].path = s[i] /\ P[b].path = s[j] => a < b

(***************************************************************************)
(* extract_audio                                                           *)
(***************************************************************************)
extract_audio(f, input_file, output_file, res) ==
    LET probe(how) == Ev("probe", input_file, output_file, how, NoText)
        decode == Ev("decode", input_file, output_file, "", NoText)
        failed(cls) == Ev("extract_error", input_file, output_file, cls, NoText)
        done == Ev("extracted", input_file, output_file, "", NoText)
    IN  CASE res = "probe_oserror" ->
                [fs |-> f, log |-> <<probe("oserror")>>, raised |-> "OSError"]
          [] res = "probe_fail" ->
                [fs |-> f, log |-> <<probe("nonzero"), failed("CalledProcessError")>>,
                 raised |-> "CalledProcessError"]
          [] res = "probe_empty" ->
                [fs |-> f, log |-> <<probe("empty"), failed("ValueError")>>,
                 raised |-> "ValueError"]
          [] res \in {"ok", "decode_partial"} /\ Writable(f, output_file) ->
                IF res = "ok"
                THEN [fs |-> WriteFile(f, output_file, FileEntry("pcm", input_file, NoText)),
                      log |-> <<probe("ok"), decode, done>>, raised |-> ""]
                ELSE [fs |-> WriteFile(f, output_file,
                                       FileEntry("partial", input_file, NoText)),
                      log |-> <<probe("ok"), decode, failed("CalledProcessError")>>,
                      raised |-> "CalledProcessError"]
          [] OTHER ->
                [fs |-> f, log |-> <<probe("ok"), decode, failed("CalledProcessError")>>,
                 raised |-> "CalledProcessError"]

(***************************************************************************)
(* transcribe_audio                                                        *)
(***************************************************************************)
transcribe_audio(f, audio_path, txt_path, o) ==
    LET call == Ev("model_call", audio_path, txt_path, "", NoText)
        got == Ev("model_ok", audio_path, txt_path, "", o.text)
        failed == Ev("transcribe_error", audio_path, txt_path, "Exception", NoText)
        saved == Ev("saved", audio_path, txt_path, "", o.text)
    IN  CASE o.res = "model_fail" ->
                [fs |-> f, log |-> <<call, failed>>]
          [] o.res \in {"ok", "write_fail"} /\ Writable(f, txt_path) ->
                IF o.res = "ok"
                THEN [fs |-> WriteFile(f, txt_path, FileEntry("txt", audio_path, o.text)),
                      log |-> <<call, got, saved>>]
                ELSE [fs |-> WriteFile(f, txt_path,
                                       FileEntry("partial", audio_path, NoText)),
                      log |-> <<call, got, failed>>]
          [] OTHER ->
                [fs |-> f, log |-> <<call, got, failed>>]

(***************************************************************************)
(* main, process_videos, process_audio_files                               *)
(***************************************************************************)
\* main: the two output roots are created
Start ==
    /\ pc = "start"
    /\ IF MkdirFails(fs, audio_folder)
       THEN /\ pc' = "crashed"
            /\ log' = Append(log, Ev("uncaught", NoPath, audio_folder, "OSError", NoText))
            /\ fs' = fs
       ELSE IF MkdirFails(Mkdir(fs, audio_folder), results_folder)
       THEN /\ pc' = "crashed"
            /\ log' = Append(log, Ev("uncaught", NoPath, results_folder, "OSError", NoText))
            /\ fs' = Mkdir(fs, audio_folder)
       ELSE /\ pc' = "load"
            /\ log' = log
            /\ fs' = Mkdir(Mkdir(fs, audio_folder), results_folder)
    /\ UNCHANGED <<argv, todo, oracle, reported, rerun, prev>>

\* a load failure that is printed and survived
load_model_survives ==
    /\ pc = "load"
    /\ LET key == Key("load", NoPath, DirEntry)
       IN  \E o \in Outcomes(key, {Out("ok", NoText), Out("load_fail", NoText)}) :
              /\ oracle' = Remember(key, o)
              /\ log' = Append(log, Ev("load_model", NoPath, NoPath, o.res, NoText))
              /\ pc' = "dispatch"
    /\ UNCHANGED <<fs, argv, todo, reported, rerun, prev>>

\* main: whisper.load_model
load_model ==
    /\ pc = "load"
    /\ LET key == Key("load", NoPath, DirEntry)
       IN  \E o \in Outcomes(key, {Out("ok", NoText), Out("load_fail", NoText)}) :
              /\ oracle' = Remember(key, o)
              /\ log' = Append(log, Ev("load_model", NoPath, NoPath, o.res, NoText))
              /\ pc' = IF o.res = "ok" THEN "dispatch" ELSE "crashed"
    /\ UNCHANGED <<fs, argv, todo, reported, rerun, prev>>

\* the mode switch looking at the last argument instead of the first
processaudioLastArg(a) == Len(a) > 1 /\ a[Len(a)] = "processaudio"

processaudio(a) == Len(a) > 1 /\ a[2] = "processaudio"

Listing(s) == [i \in 1..Len(s) |-> Ev("list", s[i], NoPath, "", NoText)]

\* main: the mode switch; in the full mode the videos are listed and
\* process_videos begins its walk
Dispatch ==
    /\ pc = "dispatch"
    /\ IF processaudio(argv)
       THEN /\ \E s \in Enumerations(Rglob(fs, audio_folder, Wav)) :
                  /\ Agrees(s, prev.log, "transcribe")
                  /\ todo' = s
            /\ pc' = "audio"
            /\ log' = log
       ELSE /\ \E s \in Enumerations(Rglob(fs, videos_folder, Mp4)) :
                  /\ Agrees(s, prev.log, "list")
                  /\ todo' = s
                  /\ log' = log \o Listing(s)
            /\ pc' = "videos"
    /\ UNCHANGED <<fs, argv, oracle, reported, rerun, prev>>

\* process_videos: one iteration of the loop
process_videos ==
    /\ pc = "videos"
    /\ todo # <<>>
    /\ LET video_file == Head(todo)
           relative_path == relative_to(video_file, videos_folder)
           audio_path == Join(audio_folder, with_suffix(relative_path, Wav))
       IN  IF MkdirFails(fs, Parent(audio_path))
           THEN /\ pc' = "crashed"
                /\ log' = Append(log, Ev("uncaught", video_file, audio_path, "OSError", NoText))
                /\ UNCHANGED <<fs, todo, oracle>>
           ELSE LET key == Key("extract", video_file, fs[video_file])
                IN  \E o \in Outcomes(key, ExtractOutcomes(fs[video_file])) :
                       LET r == extract_audio(Mkdir(fs, Parent(audio_path)),
                                              video_file, audio_path, o.res)
                       IN  /\ fs' = r.fs
                           /\ log' = log
                                \o <<Ev("extract", video_file, audio_path, "", NoText)>>
                                \o r.log
                                \o (IF r.raised = "" THEN <<>>
                                    ELSE <<Ev("error", video_file, audio_path, r.raised, NoText)>>)
                           /\ oracle' = Remember(key, o)
                           /\ todo' = Tail(todo)
                           /\ pc' = pc
    /\ UNCHANGED <<argv, reported, rerun, prev>>

\* main: process_videos has returned, process_audio_files begins its walk
VideosDone ==
    /\ pc = "videos"
    /\ todo = <<>>
    /\ \E s \in Enumerations(Rglob(fs, audio_folder, Wav)) :
          /\ Agrees(s, prev.log, "transcribe")
          /\ todo' = s
    /\ pc' = "audio"
    /\ UNCHANGED <<fs, argv, log, oracle, reported, rerun, prev>>

\* process_audio_files: one iteration of the loop
process_audio_files ==
    /\ pc = "audio"
    /\ todo # <<>>
    /\ LET audio_file == Head(todo)
           relative_path == relative_to(audio_file, audio_folder)
           txt_path == Join(results_folder, with_suffix(relative_path, Txt))
       IN  IF MkdirFails(fs, Parent(txt_path))
           THEN /\ pc' = "crashed"
                /\ log' = Append(log, Ev("uncaught", audio_file, txt_path, "OSError", NoText))
                /\ UNCHANGED <<fs, todo, oracle>>
           ELSE LET key == Key("transcribe", audio_file, fs[audio_file])
                IN  \E o \in Outcomes(key, TranscribeOutcomes(fs[audio_file])) :
                       LET r == transcribe_audio(Mkdir(fs, Parent(txt_path)),
                                                 audio_file, txt_path, o)
                       IN  /\ fs' = r.fs
                           /\ log' = log
                                \o <<Ev("transcribe", audio_file, txt_path, "", NoText)>>
                                \o r.log
                           /\ oracle' = Remember(key, o)
                           /\ todo' = Tail(todo)
                           /\ pc' = pc
    /\ UNCHANGED <<argv, reported, rerun, prev>>

\* stat().st_size of a directory is what the file system says
DirSizes == {0, 4096}

\* main: the final report of everything below results/ named *.txt, with the
\* size of each
Report ==
    /\ pc = "audio"
    /\ todo = <<>>
    /\ LET txt_files == Rglob(fs, results_folder, Txt)
           dirs == {p \in txt_files : IsDir(fs, p)}
       IN  \E st \in [dirs -> DirSizes] :
              reported' = {[path |-> relative_to(p, results_folder),
                            file |-> IsFile(fs, p),
                            size |-> IF IsFile(fs, p) THEN Len(fs[p].text) ELSE st[p]] :
                              p \in txt_files}
    /\ pc' = "done"
    /\ UNCHANGED <<fs, argv, todo, log, oracle, rerun, prev>>

\* the operator runs the program a second time with the same arguments
Rerun ==
    /\ pc \in {"done", "crashed"}
    /\ ~rerun
    /\ rerun' = TRUE
    /\ prev' = [fs |-> fs, pc |-> pc, log |-> log, reported |-> reported]
    /\ pc' = "start"
    /\ log' = <<>>
    /\ reported' = {}
    /\ todo' = <<>>
    /\ UNCHANGED <<fs, argv, oracle>>

Next ==
    \/ Start
    \/ load_model
    \/ Dispatch
    \/ process_videos
    \/ VideosDone
    \/ process_audio_files
    \/ Report
    \/ Rerun

Spec == Init /\ [][Next]_vars

(***************************************************************************)
(* Vocabulary of the properties.                                           *)
(***************************************************************************)
\* the first argument is exactly "processaudio"
OnlyAudioRequested == Len(argv) >= 2 /\ argv[2] = "processaudio"

VideoFiles == Rglob(fs, videos_folder, Mp4)

AudioFiles == Rglob(fs, audio_folder, Wav)

CountOp(l, op, p) ==
    LET T(e) == e.op = op /\ e.path = p IN Len(SelectSeq(l, T))

HasOp(l, op) == \E i \in 1..Len(l) : l[i].op = op

ExtractionOps == {"list", "extract", "probe", "decode", "extracted", "extract_error", "error"}

TranscriptionOps == {"transcribe", "model_call", "model_ok", "saved", "transcribe_error"}

\* the entries below a root
Below(f, root) == {p \in DOMAIN f : IsPrefix(root, p)}

\* no file was created, changed or removed since the run began
FilesUntouched ==
    /\ \A p \in DOMAIN fs : IsFile(fs, p) => p \in DOMAIN prev.fs /\ fs[p] = prev.fs[p]
    /\ \A p \in DOMAIN prev.fs : p \in DOMAIN fs

(***************************************************************************)
(* C4: with the first argument exactly "processaudio" nothing under the    *)
(* video root is enumerated, probed or decoded and the video tree is left  *)
(* as it was; with any other arguments all videos are listed, every one of *)
(* them has had its extraction attempt before the first transcription      *)
(* attempt, and no extraction step follows a transcription attempt.        *)
(***************************************************************************)
C4_ModeSelection ==
    /\ OnlyAudioRequested =>
          /\ pc # "videos"
          /\ \A i \in 1..Len(log) : log[i].op \notin ExtractionOps
          /\ \A p \in Below(fs, videos_folder) \cup Below(prev.fs, videos_folder) :
                p \in DOMAIN fs /\ p \in DOMAIN prev.fs /\ fs[p] = prev.fs[p]
    /\ ~OnlyAudioRequested =>
          /\ pc \in {"videos", "audio", "done"} => PathsOf(log, "list") = VideoFiles
          /\ HasOp(log, "transcribe") =>
                \A v \in VideoFiles : CountOp(log, "extract", v) = 1
          /\ \A i, j \in 1..Len(log) :
                i < j /\ log[i].op \in TranscriptionOps => log[j].op \notin ExtractionOps

\* a transcribe-only run, with videos waiting under the video root, that has
\* transcribed an audio file and finished
C4_Witness ==
    /\ OnlyAudioRequested
    /\ VideoFiles # {}
    /\ HasOp(log, "saved")
    /\ pc = "done"

\* a full run given a first argument other than "processaudio" that has
\* extracted and then transcribed
C4_WitnessFull ==
    /\ argv = <<"prog", "extract", "processaudio">>
    /\ HasOp(log, "extracted")
    /\ HasOp(log, "saved")
    /\ pc = "done"

(***************************************************************************)
(* C7: a second run on the same inputs, with the tools and the model       *)
(* answering as in the first, ends with the same files and directories     *)
(* with the same contents as the first run left, and it fails only if the  *)
(* first run failed.                                                       *)
(***************************************************************************)
C7_Idempotent ==
    rerun /\ pc \in {"done", "crashed"} =>
        /\ fs = prev.fs
        /\ pc = "crashed" => prev.pc = "crashed"

\* a second run that found audio and transcripts of the first run and finished
C7_Witness ==
    /\ rerun
    /\ pc = "done"
    /\ HasOp(log, "extracted")
    /\ HasOp(log, "saved")
    /\ \E p \in DOMAIN prev.fs : prev.fs[p].tag = "txt"

(***************************************************************************)
(* C9: the model is loaded at most once per run, exactly once in a run     *)
(* that goes on, and before anything is listed, extracted or transcribed;  *)
(* when the load fails the run is over, nothing was listed, extracted or   *)
(* transcribed, and no file was created, changed or removed.               *)
(***************************************************************************)
C9_ModelLoadedOnceFirst ==
    /\ Len(OpsOf(log, "load_model")) <= 1
    /\ pc \in {"dispatch", "videos", "audio", "done"} =>
          Len(OpsOf(log, "load_model")) = 1
    /\ \A j \in 1..Len(log) :
          log[j].op \in ExtractionOps \cup TranscriptionOps =>
             \E i \in 1..(j - 1) : log[i].op = "load_model" /\ log[i].info = "ok"
    /\ (\E i \in 1..Len(log) : log[i].op = "load_model" /\ log[i].info # "ok") =>
          /\ pc = "crashed"
          /\ \A j \in 1..Len(log) : log[j].op \notin ExtractionOps \cup TranscriptionOps
          /\ FilesUntouched

\* the load failed in a run that had videos and audio files to work on
C9_Witness ==
    /\ \E i \in 1..Len(log) : log[i].op = "load_model" /\ log[i].info = "load_fail"
    /\ VideoFiles # {}
    /\ AudioFiles # {}
    /\ pc = "crashed"

(***************************************************************************)
(* The mirrored path as the specification words it: the same location      *)
(* relative to the output root, the name with its extension exchanged.  A  *)
(* name that is nothing but the extension (".mp4") is read as a name       *)
(* without extension, to which the new extension is added.                 *)
(***************************************************************************)
StemOf(name, ext) ==
    IF Len(name) > Len(ext) /\ SubSeq(name, Len(name) - Len(ext) + 1, Len(name)) = ext
    THEN SubSeq(name, 1, Len(name) - Len(ext))
    ELSE name

Mirrored(p, inRoot, outRoot, inExt, outExt) ==
    LET rel == SubSeq(p, Len(inRoot) + 1, Len(p))
    IN  outRoot \o Parent(rel) \o <<StemOf(Last(rel), inExt) \o outExt>>

\* the first run, on a disk that held nothing but the video tree
FreshDisk == ~rerun /\ DOMAIN prev.fs = Below(prev.fs, videos_folder)

\* process_videos was called in this run and its loop is over
VideoLoopOver ==
    /\ ~OnlyAudioRequested
    /\ \E i \in 1..Len(log) : log[i].op = "load_model" /\ log[i].info = "ok"
    /\ pc \in {"audio", "done", "crashed"}

(***************************************************************************)
(* C1: when process_videos has been called and its loop is over, each      *)
(* enumerated video file has had exactly one extraction attempt, whichever *)
(* of them failed (stated for the first run on a disk that held nothing    *)
(* but the videos).                                                        *)
(***************************************************************************)
C1_EveryVideoAttemptedOnce ==
    FreshDisk /\ VideoLoopOver =>
        \A v \in VideoFiles : CountOp(log, "extract", v) = 1

\* what survives of C1: an extraction that raised is caught and logged, and the
\* loop goes on with the next file
C1_ExtractFailureCaught ==
    [][(/\ Len(log') > Len(log)
        /\ \E i \in (Len(log) + 1)..Len(log') :
              (log'[i].op = "probe" /\ log'[i].info # "ok") \/ log'[i].op = "extract_error")
       => /\ log'[Len(log')].op = "error"
          /\ pc' = "videos"
          /\ todo' = Tail(todo)]_vars

(***************************************************************************)
(* C2: after a full run every video file has an audio file at its mirrored *)
(* path, or an error was logged for it and nothing exists at that path.    *)
(***************************************************************************)
C2_AudioOrCleanError ==
    pc = "done" /\ ~OnlyAudioRequested =>
        \A i \in 1..Len(log) :
            log[i].op = "extract" =>
                IF CountOp(log, "error", log[i].path) > 0
                THEN ~Exists(fs, log[i].dst)
                ELSE IsFile(fs, log[i].dst)

(***************************************************************************)
(* C3: whenever the probe of a file did not report a duration, the error   *)
(* raised for that file is the ValueError (InputUnreadable) and the decode *)
(* tool was not invoked for it.                                            *)
(***************************************************************************)
C3_ProbeFailureIsInputUnreadable ==
    \A i \in 1..Len(log) :
        log[i].op = "probe" /\ log[i].info # "ok" =>
            /\ \E j \in (i + 1)..Len(log) :
                  /\ log[j].op = "error"
                  /\ log[j].path = log[i].path
                  /\ log[j].info = "ValueError"
            /\ CountOp(log, "decode", log[i].path) = 0

\* what survives of C3: a step whose probe did not report a duration invokes
\* no decode, touches no file and goes on with the loop
C3_ProbeFailureWritesNothing ==
    [][(/\ Len(log') > Len(log)
        /\ \E i \in (Len(log) + 1)..Len(log') :
              log'[i].op = "probe" /\ log'[i].info # "ok")
       => /\ \A i \in (Len(log) + 1)..Len(log') : log'[i].op # "decode"
          /\ \A p \in DOMAIN fs' : IsFile(fs', p) => p \in DOMAIN fs /\ fs'[p] = fs[p]
          /\ \A p \in DOMAIN fs : p \in DOMAIN fs' /\ fs'[p] = fs[p]
          /\ pc' = "videos"]_vars

(***************************************************************************)
(* C5: every file the pipeline produced sits at the mirrored path of its   *)
(* input, below an existing directory, and two distinct inputs of one      *)
(* phase of a run were never given the same output path.                   *)
(***************************************************************************)
C5_DirectoryMirror ==
    /\ \A p \in DOMAIN fs :
          fs[p].tag \in {"pcm", "txt", "partial"} =>
             /\ IsDir(fs, Parent(p))
             /\ IF IsPrefix(videos_folder, fs[p].src)
                THEN p = Mirrored(fs[p].src, videos_folder, audio_folder, Mp4, Wav)
                ELSE p = Mirrored(fs[p].src, audio_folder, results_folder, Wav, Txt)
    /\ \A i, j \in 1..Len(log) :
          /\ log[i].op \in {"extract", "transcribe"}
          /\ log[j].op = log[i].op
          /\ log[i].path # log[j].path
          => log[i].dst # log[j].dst

(***************************************************************************)
(* C6: after a run that finished, no transcript exists at the path of an   *)
(* audio file whose transcription failed, and every enumerated audio file  *)
(* has had its transcription attempt.                                      *)
(***************************************************************************)
C6_FailedTranscriptAbsent ==
    pc = "done" =>
        /\ \A i \in 1..Len(log) :
              log[i].op = "transcribe_error" => ~Exists(fs, log[i].dst)
        /\ \A a \in AudioFiles : CountOp(log, "transcribe", a) = 1

\* what survives of C6: a failed transcription is caught and the loop goes on
C6_FailureCaught ==
    [][(/\ Len(log') > Len(log)
        /\ \E i \in (Len(log) + 1)..Len(log') : log'[i].op = "transcribe_error")
       => pc' = "audio" /\ todo' = Tail(todo)]_vars

(***************************************************************************)
(* C8: after a transcribe-only run, every audio file on which the model    *)
(* call succeeded has a transcript file at its path holding exactly the    *)
(* text the model returned for it.  The claim is read in its most          *)
(* favourable way: an audio file whose result could not be written is left *)
(* out (C6 is about it).                                                   *)
(***************************************************************************)
C8_ModelTextIsTranscript ==
    pc = "done" /\ OnlyAudioRequested =>
        \A i \in 1..Len(log) :
            log[i].op = "saved" =>
                /\ IsFile(fs, log[i].dst)
                /\ fs[log[i].dst].text = log[i].text

\* what survives of C8: a transcript that was saved holds, until another audio
\* file is transcribed to the same path, exactly the text of the model, at the
\* path with_suffix gives below the results root
C8_SavedTextIsTranscript ==
    OnlyAudioRequested =>
        \A i \in 1..Len(log) :
            /\ log[i].op = "saved"
            /\ \A j \in (i + 1)..Len(log) :
                  log[j].op = "transcribe" => log[j].dst # log[i].dst
            => /\ log[i].dst = Join(results_folder,
                                    with_suffix(relative_to(log[i].path, audio_folder), Txt))
               /\ IsFile(fs, log[i].dst)
               /\ fs[log[i].dst] = FileEntry("txt", log[i].path, log[i].text)

(***************************************************************************)
(* C10: a first full run on a disk holding nothing but videos, in which    *)
(* every extraction and every transcription succeeded, ends with the       *)
(* mirrored audio file and the mirrored transcript of every video, and its *)
(* report lists exactly these transcripts, each with its size.             *)
(***************************************************************************)
C10_EndToEnd ==
    /\ pc = "done"
    /\ ~OnlyAudioRequested
    /\ FreshDisk
    /\ \A v \in VideoFiles : CountOp(log, "extracted", v) = 1
    /\ \A a \in AudioFiles : CountOp(log, "saved", a) = 1
    => LET audio(v) == Mirrored(v, videos_folder, audio_folder, Mp4, Wav)
           text(v) == Mirrored(audio(v), audio_folder, results_folder, Wav, Txt)
       IN  /\ \A v \in VideoFiles : IsFile(fs, audio(v)) /\ IsFile(fs, text(v))
           /\ reported =
                 {[path |-> relative_to(text(v), results_folder),
                   file |-> TRUE,
                   size |-> Len(fs[text(v)].text)] : v \in VideoFiles}
           /\ Cardinality(reported) = Cardinality(VideoFiles)

\* the case of the specification: a.mp4 and sub/b.mp4, all four outputs, two
\* transcripts reported
C10_SpecCase ==
    /\ pc = "done"
    /\ ~OnlyAudioRequested
    /\ VideoFiles = {videos_folder \o << <<"a">> \o Mp4 >>,
                     videos_folder \o << <<"sub">>, <<"b">> \o Mp4 >>}
    /\ DOMAIN prev.fs = Below(prev.fs, videos_folder)
    /\ \A v \in VideoFiles : CountOp(log, "extracted", v) = 1
    /\ \A a \in AudioFiles : CountOp(log, "saved", a) = 1

====
